---- MODULE Spec2Model ----
(***************************************************************************)
(* Model of the asynchronous summarization job queue (job_queue.py) as it  *)
(* is wired into the FastAPI backend (backend.py).                         *)
(*                                                                         *)
(* Execution contexts:                                                     *)
(*   - the event-loop thread runs the worker coroutine and the             *)
(*     `async def submit_job` handler; coroutines switch only at awaits    *)
(*     that really suspend (variable `running` says who holds the loop);   *)
(*   - the executor thread runs the blocking `summarize` call;             *)
(*   - `def get_job` is a plain function, so FastAPI runs it on a          *)
(*     threadpool thread: its field reads interleave with the worker's     *)
(*     field writes statement by statement.                                *)
(***************************************************************************)
EXTENDS Integers, Sequences, FiniteSets, TLC

\* ---------------------------------------------------------------- bounds
MaxJobs == 2                       \* number of submissions explored

\* ------------------------------------------------------- program values
None == "<None>"                   \* Python None in an Optional[str] field

QUEUED     == "queued"
PROCESSING == "processing"
COMPLETED  == "completed"
FAILED     == "failed"
JobStatus  == {QUEUED, PROCESSING, COMPLETED, FAILED}

AVAILABLE_MODELS == {"llama3.2", "phi3"}
PROMPTS == {"comprehensive", "executive", "bullet_points"}   \* keys of PROMPTS

\* request inputs explored by the model
TextInputs  == {"", "  ", "doc"}
ModelInputs == {"llama3.2", "gpt"}
TypeInputs  == {"comprehensive", "haiku"}

\* uuid4 strings, in the order in which the model hands them out
JobIdSeq == <<"id1", "id2", "id3", "id4">>
JobIds == {JobIdSeq[i] : i \in 1..Len(JobIdSeq)}

\* the text taken as it is, not stripped
strip_Identity(t) == t

\* str.strip() on the texts of TextInputs
strip(t) == IF t = "  " THEN "" ELSE t

\* what the HTTP exchange with Ollama can do
HttpOutcomes == {"ConnectionError", "ConnectTimeout", "ReadTimeout",
                 "HTTPError", "empty", "text"}

\* what `except RuntimeError` would catch
ExceptionClasses_OnlyRuntimeError == {"RuntimeError"}

\* exception classes that `except Exception` catches
ExceptionClasses == {"ValueError", "RuntimeError", "HTTPError"}

NoResult == [kind |-> "none", cls |-> None, value |-> None]
Return(v)     == [kind |-> "return", cls |-> None, value |-> v]
Raise(c, msg) == [kind |-> "raise", cls |-> c, value |-> msg]

\* backend.summarize: the value returned or the exception raised, given what
\* the HTTP exchange does
summarize(text, model_name, summary_type, http) ==
    IF model_name \notin AVAILABLE_MODELS
    THEN Raise("ValueError", "Unknown model")
    ELSE CASE http \in {"ConnectionError", "ConnectTimeout"} ->
                  Raise("RuntimeError", "Cannot connect to Ollama. Make sure it is running: ollama serve")
           [] http = "ReadTimeout" ->
                  Raise("RuntimeError", "Ollama timed out. Try a smaller model like phi3.")
           [] http = "HTTPError" -> Raise("HTTPError", "500 Server Error")
           [] http = "empty" -> Raise("ValueError", "Ollama returned an empty response.")
           [] OTHER -> Return("summary text")

\* ------------------------------------------------------------------ state
VARIABLES
    jobs,       \* SummarizationQueue._jobs: the Job objects in dict insertion order
    queue,      \* SummarizationQueue._queue: references (job ids) to queued Jobs, FIFO
    unfinished, \* asyncio.Queue's count of put() not yet matched by task_done()
    running,    \* coroutine holding the event-loop thread: "none", "worker", "submit"
    pc,         \* the worker coroutine's position (line of job_queue.py)
    job,        \* worker local `job` (a reference), None before the first dequeue
    res,        \* what the worker's await of run_in_executor produced
    raising,    \* exception propagating through / out of the worker, or None
    inflight,   \* jobs whose summarize_fn call is running on the executor thread
    fut,        \* the executor future's result, NoResult while not done
    sjob,       \* submit's local `job` between the store insert and the enqueue
    rpc,        \* the threadpool handler thread's position (get_job or queue_status)
    rid,        \* get_status parameter job_id of the request in hand
    rjob,       \* get_status local `job` (a reference) or None
    view,       \* the dict to_dict is building / has returned
    itsize,     \* size of _jobs recorded by the dict iterator of line 81
    statuses,   \* get_stats local `statuses`, as far as the comprehension has built it
    stats,      \* the dict get_stats is building / has returned
    resp,       \* the last response of POST /summarize
    shutdown    \* the server is shutting down (asyncio.run cancels the worker task)

vars == <<jobs, queue, unfinished, running, pc, job, res, raising,
          inflight, fut, sjob, rpc, rid, rjob, view, itsize, statuses, stats,
          resp, shutdown>>

workerVars == <<pc, job, res, raising>>
readerVars == <<rpc, rid, rjob, view, itsize, statuses, stats>>

\* Job.__init__
NewJob(id, text, model_name, summary_type) ==
    [job_id |-> id, text |-> text, model_name |-> model_name,
     summary_type |-> summary_type,
     status |-> QUEUED, summary |-> None, error |-> None, time_taken |-> None,
     submitted_at |-> "<now>", completed_at |-> None]

StoredIds == {jobs[i].job_id : i \in 1..Len(jobs)}
IdxOf(id) == CHOOSE i \in 1..Len(jobs) : jobs[i].job_id = id
JobOf(id) == jobs[IdxOf(id)]

\* a generator that hands out the same identifier again
uuid4_Reused == JobIdSeq[1]

\* str(uuid.uuid4()): an identifier no stored Job has (collisions are not
\* modelled; which fresh identifier is drawn does not matter, so the model
\* draws them in a fixed order)
uuid4 == JobIdSeq[Len(jobs) + 1]

EmptyView == [status |-> None, summary |-> None, error |-> None,
              time |-> None, completed_at |-> None]

\* the dict of get_stats before any key is filled in; `raised` tells that
\* the call ended with an exception instead of a dict
EmptyStats == [raised |-> None, pending |-> 0, total |-> 0, queued |-> 0,
               processing |-> 0, completed |-> 0, failed |-> 0]

NoResponse == [code |-> 0, job_id |-> None]

Init ==
    /\ jobs = <<>>
    /\ queue = <<>>
    /\ unfinished = 0
    /\ running = "none"
    /\ pc = "l99"
    /\ job = None
    /\ res = NoResult
    /\ raising = None
    /\ inflight = {}
    /\ fut = NoResult
    /\ sjob = None
    /\ rpc = "idle"
    /\ rid = None
    /\ rjob = None
    /\ view = EmptyView
    /\ itsize = 0
    /\ statuses = <<>>
    /\ stats = EmptyStats
    /\ resp = NoResponse
    /\ shutdown = FALSE

\* ------------------------------------------------ POST /summarize (event loop)
\* submit without the store insert of line 69
SubmitJob_NoInsert(text, model_name, summary_type) ==
    /\ running = "none"
    /\ ~shutdown
    /\ strip(text) # ""
    /\ model_name \in AVAILABLE_MODELS
    /\ summary_type \in PROMPTS
    /\ Len(jobs) < MaxJobs
    /\ sjob' = uuid4
    /\ running' = "submit"
    /\ UNCHANGED <<jobs, resp, queue, unfinished, inflight, fut, shutdown>>
    /\ UNCHANGED workerVars
    /\ UNCHANGED readerVars

\* backend.submit_job up to and including SummarizationQueue.submit's store
\* insert: the three validations, then Job(...) and self._jobs[job.job_id] = job
SubmitJob(text, model_name, summary_type) ==
    /\ running = "none"
    /\ ~shutdown
    /\ IF strip(text) = ""
       THEN /\ resp' = [code |-> 400, job_id |-> None]
            /\ UNCHANGED <<jobs, sjob, running>>
       ELSE IF model_name \notin AVAILABLE_MODELS
       THEN /\ resp' = [code |-> 400, job_id |-> None]
            /\ UNCHANGED <<jobs, sjob, running>>
       ELSE IF summary_type \notin PROMPTS
       THEN /\ resp' = [code |-> 400, job_id |-> None]
            /\ UNCHANGED <<jobs, sjob, running>>
       ELSE /\ Len(jobs) < MaxJobs
            /\ jobs' = Append(jobs, NewJob(uuid4, text, model_name, summary_type))
            /\ sjob' = uuid4
            /\ running' = "submit"
            /\ UNCHANGED resp
    /\ UNCHANGED <<queue, unfinished, inflight, fut, shutdown>>
    /\ UNCHANGED workerVars
    /\ UNCHANGED readerVars

\* SummarizationQueue.submit from `await self._queue.put(job)` to the return,
\* and submit_job's response.  The queue is unbounded, so put never suspends.
SubmitPut ==
    /\ running = "submit"
    /\ queue' = Append(queue, sjob)
    /\ unfinished' = unfinished + 1
    /\ resp' = [code |-> 200, job_id |-> sjob]
    /\ sjob' = None
    /\ running' = "none"
    /\ UNCHANGED <<jobs, inflight, fut, shutdown>>
    /\ UNCHANGED workerVars
    /\ UNCHANGED readerVars

\* --------------------------------------------- the worker coroutine (event loop)
\* an attribute assignment that lands on the first Job of the store whatever
\* Job the worker holds
SetField_First(id, f, v) == [jobs EXCEPT ![1][f] = v]

\* job.<f> = v on the Job object the worker holds (the store keeps the same
\* object, so the store sees the write)
SetField(id, f, v) == [jobs EXCEPT ![IdxOf(id)][f] = v]

\* line 99 with a queue that hands out the newest item first
WorkerGet_Lifo ==
    /\ pc = "l99"
    /\ running \in {"none", "worker"}
    /\ IF queue # <<>>
       THEN /\ job' = queue[Len(queue)]
            /\ queue' = SubSeq(queue, 1, Len(queue) - 1)
            /\ pc' = "l101"
            /\ running' = "worker"
       ELSE /\ running = "worker"
            /\ running' = "none"
            /\ UNCHANGED <<job, queue, pc>>
    /\ UNCHANGED <<jobs, unfinished, res, raising, inflight, fut, sjob, resp, shutdown>>
    /\ UNCHANGED readerVars

\* line 99 as self._queue.get_nowait(): on an empty queue QueueEmpty is raised
\* outside the try and the worker coroutine ends
WorkerGet_NoWait ==
    /\ pc = "l99"
    /\ running \in {"none", "worker"}
    /\ IF queue # <<>>
       THEN /\ job' = Head(queue)
            /\ queue' = Tail(queue)
            /\ pc' = "l101"
            /\ running' = "worker"
            /\ UNCHANGED raising
       ELSE /\ pc' = "exited"
            /\ running' = "none"
            /\ raising' = "QueueEmpty"
            /\ UNCHANGED <<job, queue>>
    /\ UNCHANGED <<jobs, unfinished, res, inflight, fut, sjob, resp, shutdown>>
    /\ UNCHANGED readerVars

\* line 99 as a peek: the worker takes the head Job but leaves it in the queue
WorkerGet_Peek ==
    /\ pc = "l99"
    /\ running \in {"none", "worker"}
    /\ IF queue # <<>>
       THEN /\ job' = Head(queue)
            /\ pc' = "l101"
            /\ running' = "worker"
            /\ UNCHANGED queue
       ELSE /\ running = "worker"
            /\ running' = "none"
            /\ UNCHANGED <<job, queue, pc>>
    /\ UNCHANGED <<jobs, unfinished, res, raising, inflight, fut, sjob, resp, shutdown>>
    /\ UNCHANGED readerVars

\* line 99: job = await self._queue.get().  With an item available get()
\* returns without suspending; on an empty queue the worker suspends and
\* gives up the event loop until a put makes an item available.
WorkerGet ==
    /\ pc = "l99"
    /\ running \in {"none", "worker"}
    /\ IF queue # <<>>
       THEN /\ job' = Head(queue)
            /\ queue' = Tail(queue)
            /\ pc' = "l101"
            /\ running' = "worker"
       ELSE /\ running = "worker"
            /\ running' = "none"
            /\ UNCHANGED <<job, queue, pc>>
    /\ UNCHANGED <<jobs, unfinished, res, raising, inflight, fut, sjob, resp, shutdown>>
    /\ UNCHANGED readerVars

\* lines 101-103 without the status assignment
WorkerSetProcessing_NoStatus ==
    /\ pc = "l101"
    /\ running = "worker"
    /\ pc' = "l107"
    /\ UNCHANGED <<jobs, queue, unfinished, running, job, res, raising, inflight, fut,
                   sjob, resp, shutdown>>
    /\ UNCHANGED readerVars

\* lines 101-103: job.status = JobStatus.PROCESSING; start = time.time()
WorkerSetProcessing ==
    /\ pc = "l101"
    /\ running = "worker"
    /\ jobs' = SetField(job, "status", PROCESSING)
    /\ pc' = "l107"
    /\ UNCHANGED <<queue, unfinished, running, job, res, raising, inflight, fut,
                   sjob, resp, shutdown>>
    /\ UNCHANGED readerVars

\* lines 107-113 with the executor call scheduled but not awaited: the loop
\* goes straight back to line 99
WorkerCall_NoAwait ==
    /\ pc = "l107"
    /\ running = "worker"
    /\ inflight' = inflight \cup {job}
    /\ pc' = "l99"
    /\ UNCHANGED <<jobs, queue, unfinished, running, job, res, raising, fut, sjob,
                   resp, shutdown>>
    /\ UNCHANGED readerVars

\* lines 107-113 calling summarize_fn on the event-loop thread itself: the
\* worker keeps the loop until the call is over
WorkerCall_Blocking ==
    /\ pc = "l107"
    /\ running = "worker"
    /\ inflight' = inflight \cup {job}
    /\ pc' = "await"
    /\ UNCHANGED <<jobs, queue, unfinished, running, job, res, raising, fut, sjob,
                   resp, shutdown>>
    /\ UNCHANGED readerVars

\* lines 107-113: hand summarize_fn to the executor and suspend on its future
WorkerCall ==
    /\ pc = "l107"
    /\ running = "worker"
    /\ inflight' = inflight \cup {job}
    /\ pc' = "await"
    /\ running' = "none"
    /\ UNCHANGED <<jobs, queue, unfinished, job, res, raising, fut, sjob, resp, shutdown>>
    /\ UNCHANGED readerVars

\* the executor thread: summarize_fn(job.text, job.model_name, job.summary_type)
\* returns or raises and the outcome is stored in the future
BackendDone(j, http) ==
    /\ j \in inflight
    /\ inflight' = inflight \ {j}
    /\ fut' = IF pc = "await" /\ job = j
              THEN summarize(JobOf(j).text, JobOf(j).model_name, JobOf(j).summary_type, http)
              ELSE fut
    /\ UNCHANGED <<jobs, queue, unfinished, running, sjob, resp, shutdown>>
    /\ UNCHANGED workerVars
    /\ UNCHANGED readerVars

\* where the try statement of lines 105-127 continues for an await outcome:
\* the rest of the try body, the `except Exception` clause, or straight to
\* the finally clause when the exception is not an Exception
Dispatch(r) ==
    IF r.kind = "return" THEN "l114"
    ELSE IF r.cls \in ExceptionClasses THEN "l120"
    ELSE "l126"

\* the await of line 107 resumes with the future's outcome
WorkerResume ==
    /\ pc = "await"
    /\ running = "none"
    /\ fut # NoResult
    /\ res' = fut
    /\ fut' = NoResult
    /\ running' = "worker"
    /\ pc' = Dispatch(fut)
    /\ raising' = IF Dispatch(fut) = "l126" THEN fut.cls ELSE raising
    /\ UNCHANGED <<jobs, queue, unfinished, job, inflight, sjob, resp, shutdown>>
    /\ UNCHANGED readerVars

\* the fields the try body assigns after the await, in statement order
\* (lines 114, 115, 116)
TryBody_StatusFirst == <<"status", "summary", "time_taken">>
TryBody == <<"summary", "status", "time_taken">>

\* the fields the except clause assigns, in statement order (lines 120, 121, 122)
ExceptBody == <<"status", "error", "time_taken">>

\* one field assignment of the worker, moving from line `from` to line `to`
WorkerWrite(from, to, f, v) ==
    /\ pc = from
    /\ running = "worker"
    /\ jobs' = SetField(job, f, v)
    /\ pc' = to
    /\ UNCHANGED <<queue, unfinished, running, job, res, raising, inflight, fut,
                   sjob, resp, shutdown>>
    /\ UNCHANGED readerVars

\* the value the worker assigns to field f on the success path (lines 114-116)
TryValue(f) ==
    CASE f = "summary" -> res.value
      [] f = "status" -> COMPLETED
      [] f = "time_taken" -> "<elapsed>"

\* the value the worker assigns to field f in the except clause (lines 120-122)
ExceptValue(f) ==
    CASE f = "status" -> FAILED
      [] f = "error" -> res.value
      [] f = "time_taken" -> "<elapsed>"

\* line 114: job.summary = summary
WorkerSetSummary == WorkerWrite("l114", "l115", TryBody[1], TryValue(TryBody[1]))
\* line 115: job.status = JobStatus.COMPLETED
WorkerSetCompleted == WorkerWrite("l115", "l116", TryBody[2], TryValue(TryBody[2]))
\* lines 116-117: job.time_taken = round(time.time() - start, 2)
WorkerSetTimeOk == WorkerWrite("l116", "l126", TryBody[3], TryValue(TryBody[3]))
\* line 120: job.status = JobStatus.FAILED
WorkerSetFailed == WorkerWrite("l120", "l121", ExceptBody[1], ExceptValue(ExceptBody[1]))
\* line 121: job.error = str(e)
WorkerSetError == WorkerWrite("l121", "l122", ExceptBody[2], ExceptValue(ExceptBody[2]))
\* lines 122-123: job.time_taken = round(time.time() - start, 2)
WorkerSetTimeFail == WorkerWrite("l122", "l126", ExceptBody[3], ExceptValue(ExceptBody[3]))
\* line 126 (finally): job.completed_at = datetime.now().isoformat()
WorkerSetCompletedAt == WorkerWrite("l126", "l127", "completed_at", "<now>")

\* line 127 when the except clause re-raises what it caught
WorkerTaskDone_Reraise ==
    /\ pc = "l127"
    /\ running = "worker"
    /\ unfinished' = unfinished - 1
    /\ res' = NoResult
    /\ IF raising = None /\ res.kind # "raise"
       THEN /\ pc' = "l99"
            /\ UNCHANGED running
       ELSE /\ pc' = "exited"
            /\ running' = "none"
    /\ UNCHANGED <<jobs, queue, job, raising, inflight, fut, sjob, resp, shutdown>>
    /\ UNCHANGED readerVars

\* line 127 followed by a return instead of the next iteration of `while True`
WorkerTaskDone_Return ==
    /\ pc = "l127"
    /\ running = "worker"
    /\ unfinished' = unfinished - 1
    /\ res' = NoResult
    /\ pc' = "exited"
    /\ running' = "none"
    /\ UNCHANGED <<jobs, queue, job, raising, inflight, fut, sjob, resp, shutdown>>
    /\ UNCHANGED readerVars

\* line 127 preceded by `del self._jobs[job.job_id]`: a finished Job is
\* evicted from the store
WorkerTaskDone_Evict ==
    /\ pc = "l127"
    /\ running = "worker"
    /\ unfinished' = unfinished - 1
    /\ res' = NoResult
    /\ jobs' = SelectSeq(jobs, LAMBDA r : r.job_id # job)
    /\ IF raising = None
       THEN /\ pc' = "l99"
            /\ UNCHANGED running
       ELSE /\ pc' = "exited"
            /\ running' = "none"
    /\ UNCHANGED <<queue, job, raising, inflight, fut, sjob, resp, shutdown>>
    /\ UNCHANGED readerVars

\* line 127 preceded by a retry: a Job that FAILED is put back on the queue
WorkerTaskDone_Retry ==
    /\ pc = "l127"
    /\ running = "worker"
    /\ unfinished' = unfinished - 1
    /\ res' = NoResult
    /\ queue' = IF JobOf(job).status = FAILED THEN Append(queue, job) ELSE queue
    /\ IF raising = None
       THEN /\ pc' = "l99"
            /\ UNCHANGED running
       ELSE /\ pc' = "exited"
            /\ running' = "none"
    /\ UNCHANGED <<jobs, job, raising, inflight, fut, sjob, resp, shutdown>>
    /\ UNCHANGED readerVars

\* line 127 (finally): self._queue.task_done(); then the loop continues, or
\* the exception the except clause did not catch leaves the coroutine
WorkerTaskDone ==
    /\ pc = "l127"
    /\ running = "worker"
    /\ unfinished' = unfinished - 1
    /\ res' = NoResult
    /\ IF raising = None
       THEN /\ pc' = "l99"
            /\ UNCHANGED running
       ELSE /\ pc' = "exited"
            /\ running' = "none"
    /\ UNCHANGED <<jobs, queue, job, raising, inflight, fut, sjob, resp, shutdown>>
    /\ UNCHANGED readerVars

\* server shutdown: asyncio.run cancels the worker task, which is suspended
\* either in queue.get() (outside the try) or in the await of line 107
\* (inside it); CancelledError is a BaseException, not an Exception
Cancel ==
    /\ ~shutdown
    /\ running = "none"
    /\ pc \in {"l99", "await"}
    /\ shutdown' = TRUE
    /\ raising' = "CancelledError"
    /\ IF pc = "l99"
       THEN /\ pc' = "exited"
            /\ UNCHANGED <<res, running>>
       ELSE /\ pc' = Dispatch(Raise("CancelledError", ""))
            /\ res' = Raise("CancelledError", "")
            /\ running' = "worker"
    /\ fut' = NoResult
    /\ UNCHANGED <<jobs, queue, unfinished, job, inflight, sjob, resp>>
    /\ UNCHANGED readerVars

\* ------------------------------------- GET /job/{job_id} (threadpool thread)
\* get_job and queue_status are plain functions, run on threadpool threads.
\* The handlers only read, so requests do not affect one another; the model
\* follows one of them at a time (rpc), interleaved with the event loop.
LookupIds == {JobIdSeq[i] : i \in 1..MaxJobs} \cup {"no-such-id"}

\* the handler thread is free to take the next request
HandlerFree == rpc \in {"idle", "ret", "sret"}

\* line 76 looking the id up among the Jobs still waiting in the queue
GetStatusLookup_QueueOnly(id) ==
    /\ HandlerFree
    /\ rid' = id
    /\ view' = EmptyView
    /\ IF \E k \in 1..Len(queue) : queue[k] = id
       THEN rjob' = id /\ rpc' = "l47"
       ELSE rjob' = None /\ rpc' = "ret"
    /\ itsize' = 0 /\ statuses' = <<>> /\ stats' = EmptyStats
    /\ UNCHANGED <<jobs, queue, unfinished, running, inflight, fut, sjob, resp, shutdown>>
    /\ UNCHANGED workerVars

\* line 76 as self._jobs.setdefault(job_id, Job(...)): an unknown id gets a
\* default Job stored and returned
GetStatusLookup_SetDefault(id) ==
    /\ HandlerFree
    /\ rid' = id
    /\ view' = EmptyView
    /\ rjob' = id
    /\ rpc' = "l47"
    /\ jobs' = IF id \in StoredIds THEN jobs ELSE Append(jobs, NewJob(id, "", "", ""))
    /\ itsize' = 0 /\ statuses' = <<>> /\ stats' = EmptyStats
    /\ UNCHANGED <<queue, unfinished, running, inflight, fut, sjob, resp, shutdown>>
    /\ UNCHANGED workerVars

\* get_job -> get_status line 76: job = self._jobs.get(job_id); an unknown id
\* returns None (HTTP 404) at once
GetStatusLookup(id) ==
    /\ HandlerFree
    /\ rid' = id
    /\ view' = EmptyView
    /\ IF id \in StoredIds
       THEN rjob' = id /\ rpc' = "l47"
       ELSE rjob' = None /\ rpc' = "ret"
    /\ itsize' = 0 /\ statuses' = <<>> /\ stats' = EmptyStats
    /\ UNCHANGED <<jobs, queue, unfinished, running, inflight, fut, sjob, resp, shutdown>>
    /\ UNCHANGED workerVars

\* one field read of Job.to_dict into the dict under construction
ReaderRead(from, to, key, f) ==
    /\ rpc = from
    /\ view' = [view EXCEPT ![key] = JobOf(rjob)[f]]
    /\ rpc' = to
    /\ UNCHANGED <<rid, rjob, itsize, statuses, stats>>
    /\ UNCHANGED <<jobs, queue, unfinished, running, inflight, fut, sjob, resp, shutdown>>
    /\ UNCHANGED workerVars

\* lines 44-47: job_id, model, summary_type (immutable) and "status"
ReadStatus == ReaderRead("l47", "l48", "status", "status")
\* line 48: "summary"
ReadSummary == ReaderRead("l48", "l49", "summary", "summary")
\* line 49: "error"
ReadError == ReaderRead("l49", "l50", "error", "error")
\* line 50: "time"
ReadTime == ReaderRead("l50", "l52", "time", "time_taken")
\* lines 51-53: submitted_at (immutable), "completed_at", and the return
ReadCompletedAt == ReaderRead("l52", "ret", "completed_at", "completed_at")

\* ------------------------------------------ GET /status (threadpool thread)
\* number of occurrences of status s in the list sq: list.count
Count(sq, s) == Cardinality({i \in 1..Len(sq) : sq[i] = s})

\* queue_status -> get_stats line 81: the comprehension creates the iterator
\* over self._jobs.values(), which records the size of the dict
StatsStart ==
    /\ HandlerFree
    /\ rpc' = "l81"
    /\ itsize' = Len(jobs)
    /\ statuses' = <<>>
    /\ stats' = EmptyStats
    /\ rid' = None /\ rjob' = None /\ view' = EmptyView
    /\ UNCHANGED <<jobs, queue, unfinished, running, inflight, fut, sjob, resp, shutdown>>
    /\ UNCHANGED workerVars

\* line 81: one next() of the dict iterator.  It raises RuntimeError
\* ("dictionary changed size during iteration") when the dict no longer has
\* the recorded size, else yields the next Job, whose status is appended, or
\* ends the comprehension.
StatsIter ==
    /\ rpc = "l81"
    /\ IF Len(jobs) # itsize
       THEN /\ stats' = [stats EXCEPT !.raised = "RuntimeError"]
            /\ rpc' = "sret"
            /\ UNCHANGED statuses
       ELSE IF Len(statuses) < itsize
       THEN /\ statuses' = Append(statuses, jobs[Len(statuses) + 1].status)
            /\ UNCHANGED <<stats, rpc>>
       ELSE /\ rpc' = "l83"
            /\ UNCHANGED <<stats, statuses>>
    /\ UNCHANGED <<rid, rjob, view, itsize>>
    /\ UNCHANGED <<jobs, queue, unfinished, running, inflight, fut, sjob, resp, shutdown>>
    /\ UNCHANGED workerVars

\* line 83: "pending": self._queue.qsize()
StatsPending ==
    /\ rpc = "l83"
    /\ stats' = [stats EXCEPT !.pending = Len(queue)]
    /\ rpc' = "l84"
    /\ UNCHANGED <<rid, rjob, view, itsize, statuses>>
    /\ UNCHANGED <<jobs, queue, unfinished, running, inflight, fut, sjob, resp, shutdown>>
    /\ UNCHANGED workerVars

\* line 84: "total": len(self._jobs)
StatsTotal ==
    /\ rpc = "l84"
    /\ stats' = [stats EXCEPT !.total = Len(jobs)]
    /\ rpc' = "l85"
    /\ UNCHANGED <<rid, rjob, view, itsize, statuses>>
    /\ UNCHANGED <<jobs, queue, unfinished, running, inflight, fut, sjob, resp, shutdown>>
    /\ UNCHANGED workerVars

\* lines 85-89: the four counts over the local list, and the return
StatsCounts ==
    /\ rpc = "l85"
    /\ stats' = [stats EXCEPT !.queued = Count(statuses, QUEUED),
                              !.processing = Count(statuses, PROCESSING),
                              !.completed = Count(statuses, COMPLETED),
                              !.failed = Count(statuses, FAILED)]
    /\ rpc' = "sret"
    /\ UNCHANGED <<rid, rjob, view, itsize, statuses>>
    /\ UNCHANGED <<jobs, queue, unfinished, running, inflight, fut, sjob, resp, shutdown>>
    /\ UNCHANGED workerVars

Next ==
    \/ \E t \in TextInputs, m \in ModelInputs, st \in TypeInputs : SubmitJob(t, m, st)
    \/ SubmitPut
    \/ WorkerGet
    \/ WorkerSetProcessing
    \/ WorkerCall
    \/ \E j \in JobIds, h \in HttpOutcomes : BackendDone(j, h)
    \/ WorkerResume
    \/ WorkerSetSummary
    \/ WorkerSetCompleted
    \/ WorkerSetTimeOk
    \/ WorkerSetFailed
    \/ WorkerSetError
    \/ WorkerSetTimeFail
    \/ WorkerSetCompletedAt
    \/ WorkerTaskDone
    \/ Cancel
    \/ \E id \in LookupIds : GetStatusLookup(id)
    \/ ReadStatus
    \/ ReadSummary
    \/ ReadError
    \/ ReadTime
    \/ ReadCompletedAt
    \/ StatsStart
    \/ StatsIter
    \/ StatsPending
    \/ StatsTotal
    \/ StatsCounts

Spec == Init /\ [][Next]_vars

\* the steps of the worker coroutine
WorkerNext ==
    \/ WorkerGet
    \/ WorkerSetProcessing
    \/ WorkerCall
    \/ WorkerResume
    \/ WorkerSetSummary
    \/ WorkerSetCompleted
    \/ WorkerSetTimeOk
    \/ WorkerSetFailed
    \/ WorkerSetError
    \/ WorkerSetTimeFail
    \/ WorkerSetCompletedAt
    \/ WorkerTaskDone

\* The event loop runs every coroutine that is ready (the worker, and a submit
\* between its two statements), and the executor thread runs summarize to its
\* return or raise (the HTTP call has timeout=300).  Shutdown is not forced.
FairSpec ==
    /\ Spec
    /\ WF_vars(WorkerNext)
    /\ WF_vars(SubmitPut)
    /\ WF_vars(\E j \in JobIds, h \in HttpOutcomes : BackendDone(j, h))

\* The event-loop and executor steps alone.  The threadpool handlers only
\* read: their steps change none of the variables these steps read or write,
\* so every fair behaviour of FairSpec is, handler steps turned into
\* stuttering, a behaviour of LiveSpec, and a property of the queue's
\* progress that holds for LiveSpec holds for FairSpec.
EventLoopNext ==
    \/ \E t \in TextInputs, m \in ModelInputs, st \in TypeInputs : SubmitJob(t, m, st)
    \/ SubmitPut
    \/ WorkerNext
    \/ \E j \in JobIds, h \in HttpOutcomes : BackendDone(j, h)
    \/ Cancel

LiveSpec ==
    /\ Init
    /\ [][EventLoopNext]_vars
    /\ WF_vars(WorkerNext)
    /\ WF_vars(SubmitPut)
    /\ WF_vars(\E j \in JobIds, h \in HttpOutcomes : BackendDone(j, h))

TypeOK ==
    /\ \A i \in 1..Len(jobs) : jobs[i].status \in JobStatus
    /\ running \in {"none", "worker", "submit"}
    /\ unfinished \in 0..MaxJobs

\* ------------------------------------------------------------------ claims
Stored == 1..Len(jobs)
Terminal == {COMPLETED, FAILED}
WithStatus(s) == {i \in Stored : jobs[i].status = s}

\* C1: with the single worker task, at most one Job in the store is PROCESSING
\* and at most one summarize_fn call is in flight, in every reachable state.
C1_SingleProcessing ==
    /\ Cardinality(WithStatus(PROCESSING)) <= 1
    /\ Cardinality(inflight) <= 1

\* C1 witness: one Job is PROCESSING with its backend call in flight while
\* another Job waits in the queue.
C1_Witness ==
    /\ Cardinality(WithStatus(PROCESSING)) = 1
    /\ Cardinality(inflight) = 1
    /\ queue # <<>>
    /\ WithStatus(QUEUED) # {}

\* C2: the only status changes of a Job are QUEUED -> PROCESSING,
\* PROCESSING -> COMPLETED and PROCESSING -> FAILED.
AllowedTransitions ==
    {<<QUEUED, PROCESSING>>, <<PROCESSING, COMPLETED>>, <<PROCESSING, FAILED>>}

C2_StatusTransitions ==
    [][\A i \in Stored :
          jobs'[i].status # jobs[i].status
              => <<jobs[i].status, jobs'[i].status>> \in AllowedTransitions]_vars

\* C2 witness: one Job has gone all the way to COMPLETED and another to FAILED.
C2_Witness ==
    /\ WithStatus(COMPLETED) # {}
    /\ WithStatus(FAILED) # {}

\* C3: summary and error are each written at most once, and once a Job's
\* status is COMPLETED or FAILED its status, summary and error never change.
C3_WrittenOnceThenFrozen ==
    [][\A i \in Stored :
          /\ jobs'[i].summary # jobs[i].summary => jobs[i].summary = None
          /\ jobs'[i].error # jobs[i].error => jobs[i].error = None
          /\ jobs[i].status \in Terminal
                => /\ jobs'[i].status = jobs[i].status
                   /\ jobs'[i].summary = jobs[i].summary
                   /\ jobs'[i].error = jobs[i].error]_vars

\* C4: for every stored Job, summary is non-null iff status is COMPLETED,
\* error is non-null iff status is FAILED, never both non-null, and both are
\* null while the status is QUEUED or PROCESSING.
C4_ResultIffTerminal ==
    \A i \in Stored :
        /\ jobs[i].summary # None <=> jobs[i].status = COMPLETED
        /\ jobs[i].error # None <=> jobs[i].status = FAILED
        /\ ~(jobs[i].summary # None /\ jobs[i].error # None)
        /\ jobs[i].status \in {QUEUED, PROCESSING}
              => jobs[i].summary = None /\ jobs[i].error = None

\* get_status has returned a dict (not None)
Returned == rpc = "ret" /\ rjob # None

\* C5: no get_status call returns a dict with status COMPLETED and summary
\* null, wherever its reads fall among the worker's writes.
C5_CompletedHasSummary ==
    Returned /\ view.status = COMPLETED => view.summary # None

\* C5 witness: a returned dict that was read in the middle of the success
\* path: status is already COMPLETED, time_taken was still unset.
C5_Witness ==
    /\ Returned
    /\ view.status = COMPLETED
    /\ view.summary # None
    /\ view.time = None

\* C6: every get_status result whose status is FAILED has error non-null and
\* summary null.
C6_FailedHasError ==
    Returned /\ view.status = FAILED => view.error # None /\ view.summary = None

\* C7: no get_status result carries a non-null summary or error together with
\* status QUEUED or PROCESSING.
C7_NoResultBeforeTerminal ==
    Returned /\ view.status \in {QUEUED, PROCESSING}
        => view.summary = None /\ view.error = None

\* C8: Jobs enter PROCESSING in submission order: when a Job is set to
\* PROCESSING, every Job submitted before it has already left QUEUED.
C8_FifoProcessing ==
    [][\A i \in Stored :
          jobs[i].status = QUEUED /\ jobs'[i].status = PROCESSING
              => \A k \in 1..(i - 1) : jobs[k].status # QUEUED]_vars

\* C8 witness: the second Job submitted is PROCESSING after having waited in
\* the queue behind the first, which has finished.
C8_Witness ==
    /\ Len(jobs) >= 2
    /\ jobs[1].status \in Terminal
    /\ jobs[2].status = PROCESSING
    /\ jobs[2].job_id = job

\* C9: a backend call that raises never stops the worker loop: after
\* finishing a FAILED Job the worker is back at the dequeue, a Job whose own
\* call returned normally is set COMPLETED whatever happened to the Jobs
\* before it, and a Job queued behind a FAILED one still reaches a terminal
\* status (unless the server shuts down first).
C9_FailureIsolation ==
    /\ [][pc = "l127" /\ JobOf(job).status = FAILED => pc' \in {"l127", "l99"}]_vars
    /\ [](res.kind = "return" /\ pc \in {"l116", "l126", "l127"}
             => JobOf(job).status = COMPLETED)
    /\ \A k \in 1..MaxJobs : \A i \in (k + 1)..MaxJobs :
          (i <= Len(jobs) /\ jobs[k].status = FAILED /\ jobs[i].status = QUEUED)
              ~> (shutdown \/ (i <= Len(jobs) /\ jobs[i].status \in Terminal))

\* C9 witness: the first Job FAILED and the Job queued behind it is COMPLETED.
C9_Witness ==
    /\ Len(jobs) >= 2
    /\ jobs[1].status = FAILED
    /\ jobs[2].status = COMPLETED

\* the backend call of the Job in hand raised (the worker was not cancelled)
BackendRaised == res.kind = "raise" /\ res.cls # "CancelledError"

\* C10: every exception the backend call raises is caught by the worker and
\* becomes Job state: the handler runs, the Job gets status FAILED and error
\* equal to the exception's message, and no backend exception leaves worker.
C10_ExceptionsBecomeJobState ==
    /\ BackendRaised => raising = None /\ pc \in {"l120", "l121", "l122", "l126", "l127"}
    /\ BackendRaised /\ pc \in {"l122", "l126", "l127"}
          => JobOf(job).status = FAILED /\ JobOf(job).error = res.value
    /\ pc = "exited" => raising = "CancelledError"

\* C10 witness: the worker has handled a ValueError (empty Ollama response)
\* and is about to loop, the Job FAILED with the exception's message.
C10_Witness ==
    /\ pc = "l127"
    /\ BackendRaised
    /\ res.cls = "ValueError"
    /\ raising = None
    /\ JobOf(job).status = FAILED
    /\ JobOf(job).error = "Ollama returned an empty response."

\* get_stats has returned a dict (it did not raise)
StatsReturned == rpc = "sret" /\ stats.raised = None

\* C11: every get_stats result has total == queued + processing + completed
\* + failed, also when the call interleaves with a submit or a status change.
C11_TotalIsSumOfCounts ==
    StatsReturned
        => stats.total = stats.queued + stats.processing + stats.completed + stats.failed

\* everything the event loop and the executor own
loopVars == <<jobs, queue, unfinished, running, inflight, fut, sjob, resp, shutdown,
              pc, job, res, raising>>

\* the step is get_status's lookup of line 76 for the id rid'
LookupStep == HandlerFree /\ rpc' \in {"l47", "ret"} /\ UNCHANGED loopVars

\* the ids some submit call has returned
ReturnedIds == StoredIds \ {sjob}

\* C12 (as claimed): get_status(id) returns None if and only if no submit has
\* ever returned that id.
C12_NotFoundIffNeverReturned ==
    [][LookupStep => (rjob' = None <=> rid' \notin ReturnedIds)]_vars

\* C12 (amended): get_status(id) returns None if and only if no submit has
\* inserted a Job with that id into the store (the insert precedes submit's
\* return); for such an id the result is None and never a dict, and for an
\* id that a submit has returned the result is never None.
C12_NotFoundIffNotStored ==
    [][LookupStep =>
          /\ rjob' = None <=> rid' \notin StoredIds
          /\ rid' \notin StoredIds => rpc' = "ret" /\ view' = EmptyView
          /\ rid' \in ReturnedIds => rjob' = rid' /\ rpc' = "l47"]_vars

\* C12 witness: a lookup has found the Job that a submit has stored but not
\* yet enqueued or returned.
C12_Witness ==
    /\ sjob # None
    /\ rjob = sjob
    /\ rpc = "l47"

\* C13: every accepted submit adds exactly one entry to the store, under an
\* id no earlier Job has, with status QUEUED and summary, error, time_taken
\* and completed_at null; nothing else adds, removes or re-keys an entry, so
\* the stored ids are pairwise distinct.
C13_SubmitAddsOneFreshJob ==
    /\ [][/\ Len(jobs') \in {Len(jobs), Len(jobs) + 1}
          /\ \A i \in Stored : jobs'[i].job_id = jobs[i].job_id
          /\ (running = "none" /\ running' = "submit") <=> Len(jobs') = Len(jobs) + 1
          /\ Len(jobs') = Len(jobs) + 1
               => LET n == jobs'[Len(jobs')]
                  IN  /\ n.job_id \notin StoredIds
                      /\ n.status = QUEUED
                      /\ n.summary = None /\ n.error = None
                      /\ n.time_taken = None /\ n.completed_at = None]_vars
    /\ [](Cardinality(StoredIds) = Len(jobs))

\* C13 witness: a second submit with the same inputs as the first has just
\* stored its own Job under a different id.
C13_Witness ==
    /\ Len(jobs) = 2
    /\ sjob = jobs[2].job_id
    /\ jobs[2].text = jobs[1].text
    /\ jobs[2].model_name = jobs[1].model_name
    /\ jobs[2].summary_type = jobs[1].summary_type
    /\ jobs[2].job_id # jobs[1].job_id
    /\ jobs[2].status = QUEUED

\* C14: read-your-writes: the id a submit has returned is in the store, a
\* get_status that starts afterwards finds the Job, and the status it
\* reports is QUEUED or a later one.
C14_ReadYourWrites ==
    /\ [](resp.code = 200 => resp.job_id \in StoredIds)
    /\ [][LookupStep /\ rid' \in ReturnedIds => rjob' = rid']_vars
    /\ [](rpc \in {"l48", "l49", "l50", "l52", "ret"} /\ rjob # None
            => view.status \in JobStatus)

\* C14 witness: get_status, called with the id the last submit returned, has
\* returned that Job's dict with status QUEUED.
C14_Witness ==
    /\ resp.code = 200
    /\ Returned
    /\ rjob = resp.job_id
    /\ view.status = QUEUED

\* a Job is PROCESSING and its backend call has not returned yet
Busy == pc = "await" /\ inflight # {}

\* the next step of the request the handler thread has in hand
HandlerStep ==
    \/ ReadStatus \/ ReadSummary \/ ReadError \/ ReadTime \/ ReadCompletedAt
    \/ StatsIter \/ StatsPending \/ StatsTotal \/ StatsCounts

\* C15: submit, get_status and get_stats are never blocked by the worker:
\* while a backend call is in flight the worker does not hold the event loop,
\* a submit can start and can finish, a get_status or get_stats can start and
\* can take each of its steps, all without a worker step; and submit returns
\* its id while the new Job is still QUEUED.
C15_NeverBlockedByWorker ==
    /\ [](Busy => running # "worker")
    /\ [](Busy /\ running = "none" /\ Len(jobs) < MaxJobs
            => ENABLED SubmitJob("doc", "llama3.2", "comprehensive"))
    /\ [](Busy /\ running = "submit" => ENABLED SubmitPut)
    /\ [](Busy /\ HandlerFree
            => /\ \A id \in LookupIds : ENABLED GetStatusLookup(id)
               /\ ENABLED StatsStart)
    /\ [](Busy /\ ~HandlerFree => ENABLED HandlerStep)
    /\ [][running = "submit" /\ running' = "none"
            => resp'.job_id = sjob /\ jobs'[IdxOf(sjob)].status = QUEUED]_vars

\* C15 witness: while the first Job's backend call is in flight, a submit has
\* returned the id of a second Job, still QUEUED, and get_status has returned
\* the first Job's dict with status PROCESSING.
C15_Witness ==
    /\ Busy
    /\ resp.code = 200
    /\ resp.job_id # job
    /\ JobOf(resp.job_id).status = QUEUED
    /\ Returned
    /\ rjob = job
    /\ view.status = PROCESSING

\* C16: as long as the worker task is running (the server does not shut down)
\* and backend calls return or raise, every Job in the store eventually
\* reaches COMPLETED or FAILED, whenever it was submitted.
C16_EveryJobFinishes ==
    \A i \in 1..MaxJobs :
        (i <= Len(jobs))
            ~> (shutdown \/ (i <= Len(jobs) /\ jobs[i].status \in Terminal))

\* C16 witness: all Jobs, two at least, have reached a terminal status and the
\* worker, still running, is suspended again on the empty queue.
C16_Witness ==
    /\ Len(jobs) >= 2
    /\ \A i \in Stored : jobs[i].status \in Terminal
    /\ ~shutdown
    /\ pc = "l99"
    /\ running = "none"
    /\ queue = <<>>

\* C17: a POST /summarize whose text is empty or whitespace, whose model_name
\* is not in AVAILABLE_MODELS or whose summary_type is not a key of PROMPTS
\* never creates a Job: no stored Job has such inputs, and the step that
\* answers 400 leaves the store, the pending queue and its counter (hence
\* every get_stats count) as they were.
C17_InvalidRequestsRejected ==
    /\ [](\A i \in Stored :
            /\ jobs[i].text \notin {"", "  "}
            /\ jobs[i].model_name \in AVAILABLE_MODELS
            /\ jobs[i].summary_type \in PROMPTS)
    /\ [][resp'.code = 400 /\ resp' # resp
            => UNCHANGED <<jobs, queue, unfinished, sjob, running>>]_vars

\* C17 witness: a request has been rejected with 400 after an earlier one was
\* accepted, whose Job is still stored and queued.
C17_Witness ==
    /\ resp.code = 400
    /\ Len(jobs) = 1
    /\ queue = <<jobs[1].job_id>>
    /\ jobs[1].status = QUEUED

\* C18: time_taken and completed_at are each written exactly once, only as
\* the Job leaves PROCESSING (the written Job is COMPLETED or FAILED), never
\* changed after being set, and both are null while the Job is QUEUED or
\* PROCESSING.
C18_TimingSetOnceOnExit ==
    /\ [][\A i \in Stored :
            /\ jobs'[i].time_taken # jobs[i].time_taken
                 => jobs[i].time_taken = None /\ jobs'[i].status \in Terminal
            /\ jobs'[i].completed_at # jobs[i].completed_at
                 => jobs[i].completed_at = None /\ jobs'[i].status \in Terminal]_vars
    /\ [](\A i \in Stored :
            jobs[i].status \in {QUEUED, PROCESSING}
                => jobs[i].time_taken = None /\ jobs[i].completed_at = None)
    /\ [](\A i \in Stored :
            jobs[i].status \in Terminal /\ (jobs[i].job_id # job \/ pc \in {"l99", "l101", "l107", "await", "exited"})
                => jobs[i].time_taken # None /\ jobs[i].completed_at # None)

\* C19: a Job that is QUEUED while another Job is PROCESSING stays QUEUED in
\* every step in which that Job stays PROCESSING, and the status get_status
\* reports for it in the meantime is QUEUED.
C19_QueuedWhileOtherProcessing ==
    /\ [][\A i \in Stored : \A k \in Stored :
            jobs[i].status = QUEUED /\ jobs[k].status = PROCESSING
                /\ jobs'[k].status = PROCESSING
                => jobs'[i].status = QUEUED]_vars
    /\ [][\A k \in Stored :
            rpc = "l47" /\ rpc' = "l48" /\ jobs[k].status = PROCESSING
                /\ rjob # jobs[k].job_id /\ JobOf(rjob).status # PROCESSING
                /\ IdxOf(rjob) > k
                => view'.status = QUEUED]_vars

\* C19 witness: get_status has returned QUEUED for the second Job, which was
\* submitted and is still queued while the first Job's backend call is in
\* flight.
C19_Witness ==
    /\ Len(jobs) >= 2
    /\ jobs[1].status = PROCESSING
    /\ jobs[1].job_id \in inflight
    /\ jobs[2].status = QUEUED
    /\ Returned
    /\ rjob = jobs[2].job_id
    /\ view.status = QUEUED

\* C20: Jobs reach their terminal status, and get completed_at, in submission
\* order: when a Job's completed_at is set, or its status becomes COMPLETED or
\* FAILED, every Job submitted before it already has completed_at set and a
\* terminal status.
C20_FinishInSubmissionOrder ==
    [][\A i \in Stored :
          \/ jobs[i].completed_at = None /\ jobs'[i].completed_at # None
          \/ jobs[i].status \notin Terminal /\ jobs'[i].status \in Terminal
          => \A k \in 1..(i - 1) :
                jobs[k].completed_at # None /\ jobs[k].status \in Terminal]_vars

\* C20 witness: with a failure followed by a success, both Jobs have their
\* completed_at and the worker has finished the second.
C20_Witness ==
    /\ Len(jobs) >= 2
    /\ jobs[1].status = FAILED /\ jobs[1].completed_at # None
    /\ jobs[2].status = COMPLETED /\ jobs[2].completed_at # None
    /\ pc = "l99"

\* the HTTP outcomes that are timeouts (requests.exceptions.Timeout and its
\* subclasses ConnectTimeout and ReadTimeout)
TimeoutOutcomes == {"ConnectTimeout", "ReadTimeout"}

\* the error messages that tell of a timeout
TimeoutMessages == {"Ollama timed out. Try a smaller model like phi3."}

\* C21: when the backend call of a Job fails with a timeout, the exception
\* handed to the worker carries a message that indicates the timeout, and the
\* Job ends FAILED with that message as error and summary null.
C21_TimeoutReported ==
    /\ [][\A j \in JobIds : \A h \in TimeoutOutcomes :
            BackendDone(j, h) /\ pc = "await" /\ job = j
                => fut'.kind = "raise" /\ fut'.value \in TimeoutMessages]_vars
    /\ [](BackendRaised /\ pc \in {"l122", "l126", "l127"}
            => /\ JobOf(job).status = FAILED
               /\ JobOf(job).error = res.value
               /\ JobOf(job).summary = None)

\* C22: get_status and get_stats are pure reads: whatever the id, a step of
\* either leaves the store (its keys and every field of every Job), the
\* pending queue and everything else the event loop owns unchanged.
C22_ReadsArePure ==
    [][readerVars' # readerVars => UNCHANGED loopVars]_vars

\* C22 witness: get_status has answered not-found for an unknown id while a
\* Job is stored and queued.
C22_Witness ==
    /\ rpc = "ret"
    /\ rjob = None
    /\ rid = "no-such-id"
    /\ Len(jobs) >= 1
    /\ queue # <<>>


\* C23: Jobs are retained: no step removes or re-keys a stored Job, the total
\* a get_stats call reads is the store's size and no later call reads less,
\* and a lookup of a Job that is COMPLETED or FAILED finds it, whatever has
\* been submitted or processed since.
C23_JobsRetained ==
    /\ [][/\ Len(jobs') >= Len(jobs)
          /\ \A i \in Stored : jobs'[i].job_id = jobs[i].job_id
          /\ (rpc = "l84" /\ rpc' = "l85" => stats'.total = Len(jobs))
          /\ \A i \in Stored :
                LookupStep /\ rid' = jobs[i].job_id /\ jobs[i].status \in Terminal
                    => rjob' = rid' /\ rpc' = "l47"]_vars
    /\ [](rpc \in {"l85", "sret"} /\ stats.raised = None => stats.total <= Len(jobs))

\* C23 witness: the first Job has just been looked up and found after it and a
\* later-submitted Job have both been processed to the end.
C23_Witness ==
    /\ Len(jobs) >= 2
    /\ rpc = "l47"
    /\ rjob = jobs[1].job_id
    /\ jobs[1].status \in Terminal
    /\ jobs[2].status \in Terminal /\ jobs[2].completed_at # None
    /\ pc = "l99"

\* the fields of a Job set at construction, and those the worker fills in
ImmutableFields == {"job_id", "text", "model_name", "summary_type", "submitted_at"}
ResultFields == {"status", "summary", "error", "time_taken", "completed_at"}

\* C24: a stored Job changes only in a step of the worker loop, only if it is
\* the Job the worker dequeued last, and only in its status, summary, error,
\* time_taken or completed_at; a submit adds its new Job and leaves every
\* existing Job as it was.
C24_OnlyWorkerWritesItsJob ==
    [][/\ \A i \in Stored :
            jobs'[i] # jobs[i]
                => /\ running = "worker"
                   /\ pc \in {"l101", "l114", "l115", "l116", "l120", "l121", "l122", "l126"}
                   /\ jobs[i].job_id = job
                   /\ job' = job
                   /\ \A f \in ImmutableFields : jobs'[i][f] = jobs[i][f]
       /\ (running' = "submit" \/ running = "submit"
            => \A i \in Stored : jobs'[i] = jobs[i])]_vars

\* C24 witness: the worker has written the summary of the second Job while the
\* first, finished earlier, is still in the store.
C24_Witness ==
    /\ Len(jobs) >= 2
    /\ jobs[1].status \in Terminal /\ jobs[1].completed_at # None
    /\ job = jobs[2].job_id
    /\ jobs[2].status = PROCESSING
    /\ jobs[2].summary # None


\* C25: for every Job, completed_at non-null implies time_taken non-null, and
\* time_taken non-null implies a terminal status; no Job has completed_at set
\* while it is PROCESSING, on any exit path of the try/except/finally.
C25_TimingImpliesTerminal ==
    \A i \in Stored :
        /\ jobs[i].completed_at # None => jobs[i].time_taken # None
        /\ jobs[i].time_taken # None => jobs[i].status \in Terminal
        /\ ~(jobs[i].completed_at # None /\ jobs[i].status = PROCESSING)

\* C26: get_stats never fails: every call that returns, returns a stats dict,
\* whatever submits run while it iterates the store.
C26_StatsNeverRaises ==
    rpc = "sret" => stats.raised = None


\* C27 as stated: every get_stats result has pending equal to queued.
C27_PendingEqualsQueued ==
    StatsReturned => stats.pending = stats.queued

\* the Jobs that are QUEUED in the store but not in the pending queue: the one
\* a submit has stored (line 69) and not yet put (line 70), and the one the
\* worker has taken (line 99) and not yet marked PROCESSING (line 101)
InHand ==
    (IF sjob # None THEN 1 ELSE 0) + (IF pc = "l101" THEN 1 ELSE 0)

\* the status list of a get_stats call still matches the store
StatusesCurrent ==
    /\ Len(statuses) = Len(jobs)
    /\ \A i \in Stored : statuses[i] = jobs[i].status

\* C27: the pending queue's size equals the number of stored QUEUED Jobs less
\* the Jobs in hand (stored but not yet put, or dequeued but not yet marked
\* PROCESSING); a get_stats call reads pending equal to its queued count when
\* its status list still matches the store and no Job is in hand at the read.
C27_PendingMatchesQueued ==
    /\ [](Len(queue) + InHand = Cardinality(WithStatus(QUEUED)))
    /\ [][rpc = "l83" /\ rpc' = "l84" /\ StatusesCurrent /\ InHand = 0
            => stats'.pending = Count(statuses, QUEUED)]_vars

\* C27 witness: a get_stats call has returned pending equal to queued with a
\* Job waiting in the queue.
C27_Witness ==
    /\ StatsReturned
    /\ stats.pending = stats.queued
    /\ stats.pending >= 1
    /\ Len(queue) = stats.pending
    /\ InHand = 0

\* C28: every id in the pending queue is the id of a stored Job whose status
\* is QUEUED, and is in the queue once; no PROCESSING, COMPLETED or FAILED Job
\* is in the pending queue.
C28_QueueHoldsQueuedJobs ==
    /\ \A k \in 1..Len(queue) :
            /\ queue[k] \in StoredIds
            /\ JobOf(queue[k]).status = QUEUED
            /\ \A m \in 1..Len(queue) : queue[m] = queue[k] => m = k
    /\ \A i \in Stored :
            jobs[i].status \in {PROCESSING, COMPLETED, FAILED}
                => \A k \in 1..Len(queue) : queue[k] # jobs[i].job_id

\* C28 witness: one Job waits in the queue while another is PROCESSING.
C28_Witness ==
    /\ Len(jobs) >= 2
    /\ jobs[1].status = PROCESSING
    /\ queue = <<jobs[2].job_id>>
    /\ jobs[2].status = QUEUED


\* the ids held in the pending queue
Queued(q) == {q[k] : k \in 1..Len(q)}

\* C29: a Job is put on the queue once, by the submit that stored it, and is
\* never put back; the worker dequeues the head, a QUEUED Job that is then no
\* longer queued; the backend is called for the Job the worker holds, which
\* bears no trace of an earlier call; and a Job leaves PROCESSING only to
\* COMPLETED on the return, or to FAILED on the raise, of that call, never
\* on a cancellation.
C29_DequeuedAndCalledOnce ==
    [][/\ \A id \in JobIds :
            id \in Queued(queue') /\ id \notin Queued(queue)
                => /\ running = "submit" /\ sjob = id
                   /\ JobOf(id).status = QUEUED
                   /\ queue' = Append(queue, id)
       /\ (pc = "l99" /\ pc' = "l101"
            => /\ job' = Head(queue)
               /\ JobOf(job').status = QUEUED
               /\ job' \notin Queued(queue'))
       /\ \A id \in JobIds :
            id \in inflight' /\ id \notin inflight
                => /\ pc = "l107" /\ job = id
                   /\ JobOf(id).status = PROCESSING
                   /\ JobOf(id).summary = None /\ JobOf(id).error = None
                   /\ JobOf(id).time_taken = None /\ JobOf(id).completed_at = None
       /\ \A i \in Stored :
            jobs[i].status = PROCESSING /\ jobs'[i].status # PROCESSING
                => /\ job = jobs[i].job_id
                   /\ raising = None
                   /\ \/ res.kind = "return" /\ jobs'[i].status = COMPLETED
                      \/ /\ res.kind = "raise" /\ res.cls \in ExceptionClasses
                         /\ jobs'[i].status = FAILED]_vars

\* C29 witness: the first Job has FAILED and is in no queue, and the worker
\* has gone on to the backend call of the second.
C29_Witness ==
    /\ Len(jobs) >= 2
    /\ jobs[1].status = FAILED /\ jobs[1].completed_at # None
    /\ queue = <<>>
    /\ job = jobs[2].job_id
    /\ pc = "await"
    /\ inflight = {job}


\* the worker is suspended in the get of line 99 on an empty queue
Suspended == pc = "l99" /\ running = "none" /\ queue = <<>>

====
